---- MODULE Spec2Model ----
(***************************************************************************)
(* GreenThumb: the plant-health view (pages/PlantHealth.tsx), its image    *)
(* picker (components/ImageUpload.tsx), the remote analysis client         *)
(* (services/plantAnalysisApi.ts), the language configuration              *)
(* (i18n/config.ts), the locale formatters (utils/dateUtils.ts) and the    *)
(* sign-in pages (pages/Auth.tsx, pages/DashboardLayout.tsx, Navbar).      *)
(*                                                                         *)
(* Conventions                                                             *)
(*   - a JavaScript string is a sequence of chunks (TLA+ strings); the     *)
(*     empty string is <<>>; a number interpolated into a template literal *)
(*     contributes one chunk per decimal digit;                            *)
(*   - a nullable value is Null (<<>>) or Some(v) (<<v>>);                  *)
(*   - a JSON number is carried in hundredths (0.87 is 87, 45 is 4500);    *)
(*   - a number given to a formatter is carried in ten-thousandths         *)
(*     (6.5 is 65000), and a formatted string has one chunk per character; *)
(*   - a JSON object is a function from the field names it has.            *)
(***************************************************************************)
EXTENDS Integers, Sequences, FiniteSets, TLC

VARIABLES
    image,      \* PlantHealth state: preview data URL, or Null
    imageFile,  \* PlantHealth state: the File to upload, or Null
    analysis,   \* PlantHealth state: the displayed Analysis, or Null
    loading,    \* PlantHealth state: a request of the view is pending
    error,      \* PlantHealth state: the displayed error string, or Null
    readers,    \* FileReaders started by handleImageSelect, not yet ended
    inflight,   \* invocations of analyzePlantImage awaiting their response
    last,       \* observation: the invocation of analyzePlantImage that settled in the latest step
    health,     \* observation: the run of checkApiHealth made in the latest step
    language,   \* i18n.language: undefined (Null) or Some(tag)
    stored,     \* localStorage['i18nextLng']: absent (Null) or Some(string)
    resources,  \* the translations given to i18n.init: the month entries they lack
    lastChoice, \* observation: the latest language change and whether its write succeeded
    boot,       \* observation: what the startup made in the latest step read
    fmt,        \* observation: the latest formatter call, with its result
    isAuthenticated, \* localStorage['isAuthenticated']: absent (Null) or Some(string)
    userRole,   \* localStorage['userRole']: absent (Null) or Some(string)
    route,      \* the route the router shows
    isLogin,    \* Auth state: the form is in login mode (signup mode otherwise)
    email,      \* Auth state: the email field
    password,   \* Auth state: the password field
    selectedRole, \* Auth state: the role chosen in the signup form
    nav         \* observation: what set the route in the latest step

vars == <<image, imageFile, analysis, loading, error, readers, inflight, last, health,
          language, stored, resources, lastChoice, boot, fmt,
          isAuthenticated, userRole, route, isLogin, email, password, selectedRole, nav>>

viewVars == <<image, imageFile, analysis, loading, error, readers, inflight, last, health>>

i18nVars == <<language, stored, resources, lastChoice, boot, fmt>>

authVars == <<isAuthenticated, userRole, route, isLogin, email, password, selectedRole, nav>>

-----------------------------------------------------------------------------
(* Bounds *)

MaxReaders == 2

MaxViewCalls == 2

MaxDirect == 1

\* the largest whole severity drawn
MaxSeverity == 100

-----------------------------------------------------------------------------
(* Nullable values and strings *)

Null == <<>>

Some(v) == <<v>>

Str(s) == <<s>>

EmptyStr == <<>>

DigitChars == <<"0", "1", "2", "3", "4", "5", "6", "7", "8", "9">>

RECURSIVE Digits(_)
Digits(n) ==
    IF n < 10 THEN <<DigitChars[n + 1]>>
    ELSE Digits(n \div 10) \o <<DigitChars[(n % 10) + 1]>>

Contains(hay, needle) ==
    \E i \in 1..(Len(hay) - Len(needle) + 1) :
        SubSeq(hay, i, i + Len(needle) - 1) = needle

-----------------------------------------------------------------------------
(* Files *)

MaxFileSize == 5 * 1024 * 1024

File(type, size) == [type |-> type, size |-> size]

TypePng == <<"image/", "png">>

TypePdf == <<"application/", "pdf">>

Files ==
    { File(TypePng, 1024), File(TypePng, MaxFileSize), File(TypePng, MaxFileSize + 1),
      File(TypePdf, 1024), File(TypePdf, MaxFileSize + 1), File(EmptyStr, 1024) }

StartsWithImage(type) == Len(type) >= 1 /\ type[1] = "image/"

\* the size check written with >=
TooLargeInclusive(size) == size >= MaxFileSize

\* file.size > 5 * 1024 * 1024
TooLarge(size) == size > MaxFileSize

DataURL(file) == [data |-> file]

ReadResults(file) == { Some(DataURL(file)), Null }

-----------------------------------------------------------------------------
(* The view's messages *)

MsgInvalidType == Str("Please select a valid image file")

MsgTooLarge == Str("File size must be less than 5MB")

MsgNoImage == Str("No image selected")

-----------------------------------------------------------------------------
(* JSON values and HTTP responses *)

JNum(h) == [t |-> "num", h |-> h, s |-> EmptyStr, a |-> <<>>]

JInt(n) == JNum(n * 100)

JStr(s) == [t |-> "str", h |-> 0, s |-> s, a |-> <<>>]

JArr(a) == [t |-> "arr", h |-> 0, s |-> EmptyStr, a |-> a]

NoFields == [k \in {} |-> JInt(0)]

Unparsable == [t |-> "unparsable", o |-> NoFields]

JNull == [t |-> "null", o |-> NoFields]

JObject(o) == [t |-> "object", o |-> o]

Get(o, k) == IF k \in DOMAIN o THEN Some(o[k]) ELSE Null

Truthy(v) ==
    /\ v # Null
    /\ CASE v[1].t = "str" -> v[1].s # EmptyStr
         [] v[1].t = "num" -> v[1].h # 0
         [] OTHER -> TRUE

DetailTexts == { Str("model unavailable"), EmptyStr }

MessageTexts == { Str("quota exceeded"), EmptyStr }

WellFormed ==
    [crop_type |-> JStr(Str("tomato")), disease_status |-> JStr(Str("Leaf Blight")),
     severity_level |-> JInt(45), confidence |-> JNum(87),
     recommendations |-> JArr(<< Str("Remove infected leaves"), Str("Apply fungicide") >>)]

Without(o, k) == [f \in (DOMAIN o) \ {k} |-> o[f]]

With(o, k, v) == [f \in (DOMAIN o) \cup {k} |-> IF f = k THEN v ELSE o[f]]

HttpResponse(status, body) == [kind |-> "http", status |-> status, body |-> body, raw |-> EmptyStr]

TransportFailure(raw) == [kind |-> "transport", status |-> 0, body |-> Unparsable, raw |-> raw]

TransportMessages == { Str("Failed to fetch"), Str("NetworkError when attempting to fetch resource.") }

TransportResponses == { TransportFailure(m) : m \in TransportMessages }

\* what a non-success status comes with
ErrorBodies ==
    { Unparsable, JNull, JObject(WellFormed), JObject(NoFields) }
    \cup { JObject([detail |-> JStr(d)]) : d \in DetailTexts }
    \cup { JObject([message |-> JStr(m)]) : m \in MessageTexts }
    \cup { JObject([detail |-> JStr(d), message |-> JStr(m)]) :
                d \in DetailTexts, m \in MessageTexts }

\* what a success status comes with
SuccessBodies ==
    { Unparsable, JNull, JObject(NoFields) }
    \cup { JObject(o) : o \in
            { WellFormed,
              [crop_type |-> JStr(Str("tomato")), disease_status |-> JStr(Str("Healthy")),
               severity_level |-> JInt(0), confidence |-> JNum(100),
               recommendations |-> JArr(<<>>)],
              Without(WellFormed, "confidence"),
              Without(WellFormed, "recommendations"),
              With(WellFormed, "severity_level", JInt(150)),
              With(WellFormed, "confidence", JNum(150)),
              With(WellFormed, "severity_level", JStr(Str("high"))) } }

Responses ==
    TransportResponses
    \cup { HttpResponse(500, b) : b \in ErrorBodies }
    \cup { HttpResponse(404, b) : b \in {Unparsable, JObject([detail |-> JStr(Str("Not Found"))])} }
    \cup { HttpResponse(200, b) : b \in SuccessBodies }
    \cup { HttpResponse(201, JObject(WellFormed)) }

ResponseOk(status) == status \in 200..299

-----------------------------------------------------------------------------
(* services/plantAnalysisApi.ts *)

JsError(name, message) == [name |-> name, message |-> message]

Returned(value) == [kind |-> "returned", value |-> Some(value), err |-> Null]

Thrown(err) == [kind |-> "thrown", value |-> Null, err |-> Some(err)]

\* `HTTP error! status: ${response.status}`
HttpErrorMessage(status) == <<"HTTP error! status: ">> \o Digits(status)

\* what JSON.parse (response.json()) rejects with on a body that is not JSON
JsonSyntaxError == JsError("SyntaxError", Str("Unexpected token < in JSON at position 0"))

\* what reading .detail of null throws
NullReadError == JsError("TypeError", Str("Cannot read properties of null (reading 'detail')"))

\* a transport failure replaced by a generic connectivity error
FetchErrorGeneric(raw) == JsError("Error", Str("Network error. Please check your connection."))

\* what fetch rejects with on a transport failure
FetchError(raw) == JsError("TypeError", raw)

\* an invocation that sends its request twice
AnalyzeRequestsTwice(file) ==
    LET req == [method |-> "POST", path |-> "/analyze", field |-> "file", file |-> file,
                accept |-> "application/json"]
    IN  <<req, req>>

\* the requests one invocation puts on the wire
AnalyzeRequests(file) ==
    << [method |-> "POST", path |-> "/analyze", field |-> "file", file |-> file,
        accept |-> "application/json"] >>

\* await response.json().catch(() => ({}))
ErrorData(body) == IF body.t = "unparsable" THEN JObject(NoFields) ELSE body

\* the same chain with message preferred over detail
ErrorMessageSwapped(o, status) ==
    IF Truthy(Get(o, "message")) THEN Get(o, "message")[1].s
    ELSE IF Truthy(Get(o, "detail")) THEN Get(o, "detail")[1].s
    ELSE HttpErrorMessage(status)

\* errorData.detail || errorData.message || `HTTP error! status: ${response.status}`
ErrorMessage(o, status) ==
    IF Truthy(Get(o, "detail")) THEN Get(o, "detail")[1].s
    ELSE IF Truthy(Get(o, "message")) THEN Get(o, "message")[1].s
    ELSE HttpErrorMessage(status)

\* the !response.ok branch without the .catch(() => ({})) on response.json()
NotOkOutcomeNoCatch(resp) ==
    IF resp.body.t = "unparsable" THEN Thrown(JsonSyntaxError)
    ELSE IF resp.body.t = "null" THEN Thrown(NullReadError)
    ELSE Thrown(JsError("Error", ErrorMessage(resp.body.o, resp.status)))

\* the !response.ok branch
NotOkOutcome(resp) ==
    LET errorData == ErrorData(resp.body)
    IN  IF errorData.t = "null" THEN Thrown(NullReadError)
        ELSE Thrown(JsError("Error", ErrorMessage(errorData.o, resp.status)))

\* const result: AnalysisResult = await response.json(); return result
OkOutcome(resp) ==
    IF resp.body.t = "unparsable" THEN Thrown(JsonSyntaxError)
    ELSE Returned(resp.body)

\* a catch block that swallows the error and returns a value instead
RethrowSwallowed(outcome) ==
    IF outcome.kind = "thrown" THEN Returned(JNull) ELSE outcome

\* catch (error) { console.error(...); throw error; }
Rethrow(outcome) == outcome

\* how an invocation of analyzePlantImage ends, given what the network answered
AnalyzePlantImage(resp) ==
    Rethrow(IF resp.kind = "transport" THEN Thrown(FetchError(resp.raw))
            ELSE IF ~ResponseOk(resp.status) THEN NotOkOutcome(resp)
            ELSE OkOutcome(resp))

\* a health check that takes every status below 400 for healthy
CheckApiHealthBelow400(resp) ==
    IF resp.kind = "transport" THEN FALSE ELSE resp.status < 400

CheckApiHealth(resp) ==
    IF resp.kind = "transport" THEN FALSE ELSE ResponseOk(resp.status)

-----------------------------------------------------------------------------
(* i18n/config.ts *)

En == Str("en")

Kn == Str("kn")

Hi == Str("hi")

Fr == Str("fr")

\* const validLanguages = ['en', 'kn', 'hi']
ValidLanguages == { En, Kn, Hi }

\* tags handed to i18n.changeLanguage
ChangeTags == ValidLanguages \cup { Fr }

\* how an access to localStorage goes: it works, it throws, or there is no
\* localStorage (typeof localStorage === 'undefined')
Accesses == { "ok", "throws", "absent" }

\* a || b on a nullable string
OrElse(value, default) ==
    IF value = Null \/ value = Some(EmptyStr) THEN default ELSE value[1]

\* getSavedLanguage, given how the access goes and what the key holds
GetSavedLanguage(access, item) ==
    IF access = "absent" THEN En
    ELSE IF access = "throws" THEN En
    ELSE OrElse(item, En)

\* validLanguages.includes(savedLanguage) replaced by true
InitialLanguageUnchecked(savedLanguage) == savedLanguage

\* const initialLanguage = validLanguages.includes(savedLanguage) ? savedLanguage : 'en'
InitialLanguage(savedLanguage) ==
    IF savedLanguage \in ValidLanguages THEN savedLanguage ELSE En

\* the languageChanged handler without its write
LanguageChangedNoWrite(lng, access) == stored

\* i18n.on('languageChanged', ...): what the key holds after the handler
LanguageChanged(lng, access) ==
    IF access = "ok" THEN Some(lng) ELSE stored

\* the month keys of utils/dateUtils.ts
MonthAbbrKeys ==
    <<"jan", "feb", "mar", "apr", "may", "jun", "jul", "aug", "sep", "oct", "nov", "dec">>

MonthNameKeys ==
    <<"january", "february", "march", "april", "mayFull", "june", "july", "august",
      "september", "october", "november", "december">>

\* the locale files, described by the <<language, key>> entries they lack and
\* the entries they translate to ''
Locales(missing, blank) == [missing |-> missing, blank |-> blank]

Entries(lngs, keys) == { <<lng, key>> : lng \in lngs, key \in keys }

CompleteBundle == Locales({}, {})

\* the resource of a key in one language, if there is one
Resource(lng, key) ==
    IF lng \notin ValidLanguages \/ <<lng, key>> \in resources.missing THEN Null
    ELSE IF <<lng, key>> \in resources.blank THEN Some(EmptyStr)
    ELSE Some(<<lng[1], ":", key>>)

\* i18n.t(`months.${key}`) under fallbackLng: 'en': the active language's
\* translation, else the English one, else the key path itself
T(key) ==
    LET own == IF language = Null THEN Null ELSE Resource(language[1], key)
        fallback == Resource(En, key)
    IN  IF own # Null THEN own[1]
        ELSE IF fallback # Null THEN fallback[1]
        ELSE <<"months.", key>>

ViewAtLoad ==
    /\ image' = Null
    /\ imageFile' = Null
    /\ analysis' = Null
    /\ loading' = FALSE
    /\ error' = Null
    /\ readers' = <<>>
    /\ inflight' = <<>>
    /\ last' = Null
    /\ health' = Null

\* the page is loaded again: i18n/config.ts runs, i18n.init receives lng: initialLanguage
Load(access) ==
    /\ language' = Some(InitialLanguage(GetSavedLanguage(access, stored)))
    /\ boot' = Some([access |-> access, item |-> stored])
    /\ fmt' = Null
    /\ ViewAtLoad
    /\ UNCHANGED <<stored, resources, lastChoice>>

\* the page is loaded again at the route it shows
Startup(access) ==
    /\ Load(access)
    /\ UNCHANGED authVars

\* i18n.changeLanguage(lng): i18n.language becomes lng, languageChanged fires
ChangeLanguage(lng, access) ==
    /\ language' = Some(lng)
    /\ stored' = LanguageChanged(lng, access)
    /\ lastChoice' = Some([lng |-> lng, written |-> (access = "ok")])
    /\ boot' = Null
    /\ UNCHANGED <<resources, fmt>>
    /\ UNCHANGED <<viewVars, authVars>>

-----------------------------------------------------------------------------
(* utils/dateUtils.ts *)

EnUS == Str("en-US")

HiIN == Str("hi-IN")

KnIN == Str("kn-IN")

\* const localeMap = { en: 'en-US', hi: 'hi-IN', kn: 'kn-IN' }
LocaleMap == (En :> EnUS) @@ (Hi :> HiIN) @@ (Kn :> KnIN)

\* localeMap[lang]: undefined for a language that is no key of the map
LocaleOf(lang) ==
    IF lang # Null /\ lang[1] \in DOMAIN LocaleMap THEN Some(LocaleMap[lang[1]]) ELSE Null

\* getLocaleCode handing the language tag itself to the platform
GetLocaleCodeNoMap == IF language = Null THEN EnUS ELSE language[1]

\* getLocaleCode reading the persisted key in place of i18n.language
GetLocaleCodeFromStorage == OrElse(LocaleOf(stored), EnUS)

\* const lang = i18n.language; return localeMap[lang] || 'en-US'
GetLocaleCode == OrElse(LocaleOf(language), EnUS)

\* a number n is carried as n * Scale: four fractional digits
Scale == 10 * 10 * 10 * 10

Whole(n) == n * Scale

Abs(x) == IF x < 0 THEN -x ELSE x

RECURSIVE Pow10(_)
Pow10(k) == IF k = 0 THEN 1 ELSE 10 * Pow10(k - 1)

\* Intl.NumberFormatOptions as the formatters fill them in
NumberOptions(style, minimum, maximum) ==
    [style |-> style, minimumFractionDigits |-> minimum, maximumFractionDigits |-> maximum]

RECURSIVE ZeroPad(_, _)
ZeroPad(ds, width) == IF Len(ds) >= width THEN ds ELSE ZeroPad(<<"0">> \o ds, width)

RECURSIVE TrimZeros(_, _)
TrimZeros(ds, minimum) ==
    IF Len(ds) > minimum /\ ds[Len(ds)] = "0"
    THEN TrimZeros(SubSeq(ds, 1, Len(ds) - 1), minimum)
    ELSE ds

RECURSIVE GroupBy(_, _)
GroupBy(ds, size) ==
    IF Len(ds) <= size THEN ds
    ELSE GroupBy(SubSeq(ds, 1, Len(ds) - size), size)
         \o <<",">> \o SubSeq(ds, Len(ds) - size + 1, Len(ds))

\* every locale grouping in threes
GroupedInThrees(ds, locale) == GroupBy(ds, 3)

\* en-US groups the integer digits in threes; hi-IN and kn-IN keep the last
\* three together and group the rest in twos
Grouped(ds, locale) ==
    IF locale = EnUS THEN GroupBy(ds, 3)
    ELSE IF Len(ds) <= 3 THEN ds
    ELSE GroupBy(SubSeq(ds, 1, Len(ds) - 3), 2)
         \o <<",">> \o SubSeq(ds, Len(ds) - 2, Len(ds))

\* num.toLocaleString(locale, options): the value (times 100 under style
\* 'percent') rounded half away from zero to maximumFractionDigits, trailing
\* zeros dropped down to minimumFractionDigits, the integer digits grouped
ToLocaleString(num, locale, options) ==
    LET opts == IF options = Null THEN NumberOptions("decimal", 0, 3) ELSE options[1]
        percent == opts.style = "percent"
        scaled == IF percent THEN num * 100 ELSE num
        maximum == opts.maximumFractionDigits
        unit == Pow10(4 - maximum)
        rounded == (Abs(scaled) + (unit \div 2)) \div unit
        fraction == IF maximum = 0 THEN <<>>
                    ELSE TrimZeros(ZeroPad(Digits(rounded % Pow10(maximum)), maximum),
                                   opts.minimumFractionDigits)
    IN  (IF num < 0 THEN <<"-">> ELSE <<>>)
        \o Grouped(Digits(rounded \div Pow10(maximum)), locale)
        \o (IF fraction = <<>> THEN <<>> ELSE <<".">> \o fraction)
        \o (IF percent THEN <<"%">> ELSE <<>>)

\* a Date as the calendar day it shows, or an invalid Date
Day(y, m, d) == [valid |-> TRUE, y |-> y, m |-> m, d |-> d]

\* { year: 'numeric', month: ..., day: 'numeric' }
DateOptions(month) == [year |-> "numeric", month |-> month, day |-> "numeric"]

\* the locale's word for a month, long or short
MonthWord(locale, m, width) == <<locale[1], ":", width, ":">> \o Digits(m)

\* dateObj.toLocaleDateString(locale, options): month day, year in en-US and
\* kn-IN, day month year in hi-IN
ToLocaleDateString(date, locale, options) ==
    IF ~date.valid THEN Str("Invalid Date")
    ELSE IF locale = HiIN
    THEN Digits(date.d) \o <<" ">> \o MonthWord(locale, date.m, options.month)
         \o <<" ">> \o Digits(date.y)
    ELSE MonthWord(locale, date.m, options.month) \o <<" ">> \o Digits(date.d)
         \o <<",", " ">> \o Digits(date.y)

\* { year: 'numeric', month: 'long', day: 'numeric', ...options }
FormatDate(date, options) ==
    ToLocaleDateString(date, GetLocaleCode,
                       IF options = Null THEN DateOptions("long") ELSE options[1])

FormatDateShort(date) == FormatDate(date, Some(DateOptions("short")))

\* i18n.t(`months.${monthKeys[monthIndex]}`) || monthKeys[monthIndex]
GetMonthAbbr(monthIndex) ==
    OrElse(Some(T(MonthAbbrKeys[monthIndex + 1])), Str(MonthAbbrKeys[monthIndex + 1]))

GetMonthName(monthIndex) ==
    OrElse(Some(T(MonthNameKeys[monthIndex + 1])), Str(MonthNameKeys[monthIndex + 1]))

FormatNumber(num, options) == ToLocaleString(num, GetLocaleCode, options)

FormatPercentage(num, decimals) ==
    ToLocaleString(num, GetLocaleCode, Some(NumberOptions("percent", decimals, decimals)))

\* formatNumberWithPercent putting the sign on every value that is not negative
FormatNumberWithPercentPlusOnZero(num, showPlus) ==
    LET formatted == FormatNumber(num, Null)
    IN  IF showPlus /\ num >= 0 THEN <<"+">> \o formatted \o <<"%">>
        ELSE formatted \o <<"%">>

\* return showPlus && num > 0 ? `+${formatted}%` : `${formatted}%`
FormatNumberWithPercent(num, showPlus) ==
    LET formatted == FormatNumber(num, Null)
    IN  IF showPlus /\ num > 0 THEN <<"+">> \o formatted \o <<"%">>
        ELSE formatted \o <<"%">>

\* formatDecimal that only caps the fraction digits
FormatDecimalNoPadding(num, decimals) ==
    ToLocaleString(num, GetLocaleCode, Some(NumberOptions("decimal", 0, decimals)))

FormatDecimal(num, decimals) ==
    ToLocaleString(num, GetLocaleCode, Some(NumberOptions("decimal", decimals, decimals)))

\* a JSON number (hundredths) as a formatter number
FromJson(h) == h * (Scale \div 100)

\* the confidence line scaling through formatPercentage as well
ConfidenceTextScaledTwice(confidence) == FormatPercentage(FromJson(confidence) * 100, 0)

\* PlantHealth: {formatNumberWithPercent(analysis.confidence * 100)}
ConfidenceText(confidence) == FormatNumberWithPercent(FromJson(confidence) * 100, FALSE)

-----------------------------------------------------------------------------
(* calls of the formatters *)

MaxDecimals == 3

Decimals == 0..MaxDecimals

Dates == { Day(2025, 1, 15), Day(2024, 12, 31), [valid |-> FALSE, y |-> 0, m |-> 0, d |-> 0] }

MonthIndexes == 0..11

\* what a formatter call read and returned
Called(op, args, result) ==
    /\ fmt' = Some([op |-> op, args |-> args, lang |-> language,
                    locale |-> GetLocaleCode, result |-> result])
    /\ UNCHANGED <<language, stored, resources, lastChoice, boot>>
    /\ UNCHANGED <<viewVars, authVars>>

FormatNumberCall(num) == Called("formatNumber", <<num>>, FormatNumber(num, Null))

FormatPercentageCall(num, decimals) ==
    Called("formatPercentage", <<num, decimals>>, FormatPercentage(num, decimals))

FormatNumberWithPercentCall(num, showPlus) ==
    Called("formatNumberWithPercent", <<num, showPlus>>, FormatNumberWithPercent(num, showPlus))

FormatDecimalCall(num, decimals) ==
    Called("formatDecimal", <<num, decimals>>, FormatDecimal(num, decimals))

FormatDateCall(date) == Called("formatDate", <<date>>, FormatDate(date, Null))

FormatDateShortCall(date) == Called("formatDateShort", <<date>>, FormatDateShort(date))

GetMonthAbbrCall(monthIndex) == Called("getMonthAbbr", <<monthIndex>>, GetMonthAbbr(monthIndex))

GetMonthNameCall(monthIndex) == Called("getMonthName", <<monthIndex>>, GetMonthName(monthIndex))

\* the confidence line of the analysis card is rendered
RenderConfidence(confidence) ==
    Called("confidence", <<confidence>>, ConfidenceText(confidence))

-----------------------------------------------------------------------------
(* pages/PlantHealth.tsx: the severity line of the analysis card *)
(* severity is the JSON number severity_level, in hundredths     *)

\* getSeverityColor with its orange band reaching 60
GetSeverityColorOrangeTo60(severity) ==
    IF severity = 0 THEN Str("text-green-600")
    ELSE IF severity <= 20 * 100 THEN Str("text-yellow-600")
    ELSE IF severity <= 60 * 100 THEN Str("text-orange-600")
    ELSE Str("text-red-600")

GetSeverityColor(severity) ==
    IF severity = 0 THEN Str("text-green-600")
    ELSE IF severity <= 20 * 100 THEN Str("text-yellow-600")
    ELSE IF severity <= 40 * 100 THEN Str("text-orange-600")
    ELSE Str("text-red-600")

GetSeverityLabel(severity) ==
    IF severity = 0 THEN Str("Healthy")
    ELSE IF severity <= 20 * 100 THEN Str("Mild")
    ELSE IF severity <= 40 * 100 THEN Str("Moderate")
    ELSE IF severity <= 60 * 100 THEN Str("Severe")
    ELSE IF severity <= 80 * 100 THEN Str("Very Severe")
    ELSE Str("Critical")

\* the severity line is rendered: class from getSeverityColor, text from
\* getSeverityLabel, both of the same severity_level
RenderSeverity(severity) ==
    Called("severity", <<severity>>,
           [color |-> GetSeverityColor(severity), label |-> GetSeverityLabel(severity)])

-----------------------------------------------------------------------------
(* pages/PlantHealth.tsx and components/ImageUpload.tsx *)

MsgGeneric == Str("Failed to analyze image. Please try again.")

RemoveAt(seq, i) == SubSeq(seq, 1, i - 1) \o SubSeq(seq, i + 1, Len(seq))

Call(origin, file) ==
    [origin |-> origin, file |-> file, cleared |-> FALSE, reqs |-> AnalyzeRequests(file)]

\* analysis.recommendations.map(...) throws while rendering when recommendations
\* is undefined or not an array; no error boundary catches it
RenderThrows ==
    /\ analysis # Null
    /\ LET r == Get(analysis[1], "recommendations")
       IN  r = Null \/ r[1].t # "arr"

Mounted == ~RenderThrows

\* the drop zone and the file input are rendered only while there is no preview
PickerShown == Mounted /\ image = Null

\* the analyze button without disabled={loading}
AnalyzeButtonNeverDisabled == Mounted /\ image # Null /\ analysis = Null

\* {image && !analysis && <Button onClick={handleAnalyze} disabled={loading}>}
AnalyzeButtonEnabled == Mounted /\ image # Null /\ analysis = Null /\ ~loading

\* handleImageSelect without its size check
HandleImageSelectNoSizeCheck(file) ==
    IF ~StartsWithImage(file.type)
    THEN /\ error' = Some(MsgInvalidType)
         /\ UNCHANGED <<image, imageFile, analysis, loading, readers>>
    ELSE /\ readers' = Append(readers, file)
         /\ UNCHANGED <<image, imageFile, analysis, loading, error>>

\* handleImageSelect reading the file before it validates it
HandleImageSelectReadsFirst(file) ==
    IF ~StartsWithImage(file.type)
    THEN /\ error' = Some(MsgInvalidType)
         /\ readers' = Append(readers, file)
         /\ UNCHANGED <<image, imageFile, analysis, loading>>
    ELSE IF TooLarge(file.size)
    THEN /\ error' = Some(MsgTooLarge)
         /\ readers' = Append(readers, file)
         /\ UNCHANGED <<image, imageFile, analysis, loading>>
    ELSE /\ readers' = Append(readers, file)
         /\ UNCHANGED <<image, imageFile, analysis, loading, error>>

HandleImageSelect(file) ==
    IF ~StartsWithImage(file.type)
    THEN /\ error' = Some(MsgInvalidType)
         /\ UNCHANGED <<image, imageFile, analysis, loading, readers>>
    ELSE IF TooLarge(file.size)
    THEN /\ error' = Some(MsgTooLarge)
         /\ UNCHANGED <<image, imageFile, analysis, loading, readers>>
    ELSE /\ readers' = Append(readers, file)
         /\ UNCHANGED <<image, imageFile, analysis, loading, error>>

\* a file that would start a FileReader needs room among the pending ones
ReaderRoom(file) ==
    (StartsWithImage(file.type) /\ ~TooLarge(file.size)) => Len(readers) < MaxReaders

\* ImageUpload.handleFileChange: the file input's onChange
FilePick(file) ==
    /\ PickerShown
    /\ ReaderRoom(file)
    /\ HandleImageSelect(file)
    /\ last' = Null /\ health' = Null
    /\ UNCHANGED <<i18nVars, authVars>>
    /\ UNCHANGED inflight

\* ImageUpload.handleDrop
Drop(file) ==
    /\ PickerShown
    /\ ReaderRoom(file)
    /\ IF StartsWithImage(file.type)
       THEN HandleImageSelect(file)
       ELSE UNCHANGED <<image, imageFile, analysis, loading, error, readers>>
    /\ last' = Null /\ health' = Null
    /\ UNCHANGED <<i18nVars, authVars>>
    /\ UNCHANGED inflight

\* reader.onloadend, after a successful read or a failed one (result null)
ReadEnd(i, result) ==
    /\ i \in 1..Len(readers)
    /\ result \in ReadResults(readers[i])
    /\ readers' = RemoveAt(readers, i)
    /\ IF Mounted
       THEN /\ image' = result
            /\ imageFile' = Some(readers[i])
            /\ error' = Null
            /\ UNCHANGED <<analysis, loading>>
       ELSE UNCHANGED <<image, imageFile, analysis, loading, error>>
    /\ last' = Null /\ health' = Null
    /\ UNCHANGED <<i18nVars, authVars>>
    /\ UNCHANGED inflight

MarkCleared(calls) ==
    [i \in 1..Len(calls) |->
        IF calls[i].origin = "view" THEN [calls[i] EXCEPT !.cleared = TRUE] ELSE calls[i]]

\* the reset without setError(null)
ResetViewKeepsError ==
    /\ image' = Null
    /\ imageFile' = Null
    /\ analysis' = Null
    /\ UNCHANGED <<loading, readers, error>>

ResetView ==
    /\ image' = Null
    /\ imageFile' = Null
    /\ analysis' = Null
    /\ error' = Null
    /\ UNCHANGED <<loading, readers>>

\* ImageUpload's onClear
Clear ==
    /\ (Mounted /\ image # Null)
    /\ ResetView
    /\ inflight' = MarkCleared(inflight)
    /\ last' = Null /\ health' = Null
    /\ UNCHANGED <<i18nVars, authVars>>

\* the 'Analyze Another Image' button
AnalyzeAnother ==
    /\ (Mounted /\ analysis # Null)
    /\ ResetView
    /\ inflight' = MarkCleared(inflight)
    /\ last' = Null /\ health' = Null
    /\ UNCHANGED <<i18nVars, authVars>>

\* handleAnalyze calling setLoading(true) ahead of its guard
HandleAnalyzeLoadingFirst ==
    IF imageFile = Null
    THEN /\ error' = Some(MsgNoImage)
         /\ loading' = TRUE
         /\ UNCHANGED <<image, imageFile, analysis, inflight>>
    ELSE /\ loading' = TRUE
         /\ error' = Null
         /\ inflight' = Append(inflight, Call("view", imageFile[1]))
         /\ UNCHANGED <<image, imageFile, analysis>>

\* handleAnalyze up to its await
HandleAnalyze ==
    IF imageFile = Null
    THEN /\ error' = Some(MsgNoImage)
         /\ UNCHANGED <<image, imageFile, analysis, loading, inflight>>
    ELSE /\ loading' = TRUE
         /\ error' = Null
         /\ inflight' = Append(inflight, Call("view", imageFile[1]))
         /\ UNCHANGED <<image, imageFile, analysis>>

CallsOf(origin) == { i \in 1..Len(inflight) : inflight[i].origin = origin }

ClickAnalyze ==
    /\ AnalyzeButtonEnabled
    /\ Cardinality(CallsOf("view")) < MaxViewCalls
    /\ HandleAnalyze
    /\ last' = Null /\ health' = Null
    /\ UNCHANGED <<i18nVars, authVars>>
    /\ UNCHANGED readers

\* { ...result, timestamp: new Date().toLocaleString() }
Spread(value) ==
    LET o == IF value.t = "object" THEN value.o ELSE NoFields
    IN  [f \in (DOMAIN o) \cup {"timestamp"} |->
            IF f = "timestamp" THEN JStr(Str("11/1/2026, 9:00:00 AM")) ELSE o[f]]

\* err instanceof Error ? err.message : 'Failed to analyze image. Please try again.'
ViewErrorMessage(err) ==
    IF err.name \in {"Error", "TypeError", "SyntaxError"} THEN err.message ELSE MsgGeneric

\* handleAnalyze with setLoading(false) at the end of its try block
HandleAnalyzeResumeNoFinally(call, outcome) ==
    /\ IF outcome.kind = "returned"
       THEN /\ analysis' = Some(Spread(outcome.value[1]))
            /\ loading' = FALSE
            /\ UNCHANGED error
       ELSE /\ error' = Some(ViewErrorMessage(outcome.err[1]))
            /\ UNCHANGED <<analysis, loading>>
    /\ UNCHANGED <<image, imageFile>>

\* handleAnalyze after its await: try / catch / finally
HandleAnalyzeResume(call, outcome) ==
    /\ IF outcome.kind = "returned"
       THEN /\ analysis' = Some(Spread(outcome.value[1]))
            /\ UNCHANGED error
       ELSE /\ error' = Some(ViewErrorMessage(outcome.err[1]))
            /\ UNCHANGED analysis
    /\ loading' = FALSE
    /\ UNCHANGED <<image, imageFile>>

\* a direct caller of the exported analyzePlantImage
DirectCall(file) ==
    /\ Cardinality(CallsOf("direct")) < MaxDirect
    /\ inflight' = Append(inflight, Call("direct", file))
    /\ last' = Null /\ health' = Null
    /\ UNCHANGED <<i18nVars, authVars>>
    /\ UNCHANGED <<image, imageFile, analysis, loading, error, readers>>

\* the network answers invocation i; the invocation settles and, for a call of
\* the view that is still mounted, handleAnalyze resumes
SettleCall(i, resp) ==
    /\ i \in 1..Len(inflight)
    /\ inflight' = RemoveAt(inflight, i)
    /\ IF inflight[i].origin = "view" /\ Mounted
       THEN HandleAnalyzeResume(inflight[i], AnalyzePlantImage(resp))
       ELSE UNCHANGED <<image, imageFile, analysis, loading, error>>
    /\ health' = Null
    /\ UNCHANGED <<i18nVars, authVars>>
    /\ UNCHANGED readers

Settle(i, resp) ==
    /\ SettleCall(i, resp)
    /\ last' = Null

\* the same step, with what the caller of analyzePlantImage observed recorded
SettleObserved(i, resp) ==
    /\ SettleCall(i, resp)
    /\ last' = Some([origin |-> inflight[i].origin, file |-> inflight[i].file,
                     reqs |-> inflight[i].reqs, resp |-> resp,
                     outcome |-> AnalyzePlantImage(resp)])

HealthCheck(resp) ==
    /\ health' = Some([resp |-> resp, result |-> CheckApiHealth(resp)])
    /\ last' = Null
    /\ UNCHANGED <<image, imageFile, analysis, loading, error, readers, inflight>>
    /\ UNCHANGED <<i18nVars, authVars>>

-----------------------------------------------------------------------------
(* pages/Auth.tsx, pages/DashboardLayout.tsx, components/Navbar.tsx and the *)
(* routes of App.tsx                                                        *)

Farmer == Str("farmer")

\* type UserRole
UserRoles == { Farmer, Str("labExpert"), Str("admin") }

AuthRoute == Str("/auth")

\* the children of the layout route
DashboardRoutes ==
    { Str("/dashboard"), Str("/soil-analysis"), Str("/plant-health"),
      Str("/crop-recommendations"), Str("/reports"), Str("/map-view"),
      Str("/forum"), Str("/calendar"), Str("/sustainability") }

\* the useState initial values of Auth
AuthAtMount ==
    /\ isLogin' = TRUE
    /\ email' = EmptyStr
    /\ password' = EmptyStr
    /\ selectedRole' = Farmer

\* the route shown once path was entered and, for a child of the layout
\* route, DashboardLayout mounted and its effect ran: navigate('/auth') when
\* localStorage.getItem('isAuthenticated') is falsy
Guard(path, item) ==
    IF path \in DashboardRoutes /\ OrElse(item, Null) = Null THEN AuthRoute ELSE path

\* the page is loaded at path (address bar, bookmark, reload)
Open(path) ==
    /\ Load("ok")
    /\ route' = Guard(path, isAuthenticated)
    /\ nav' = Some([cause |-> "open", to |-> path])
    /\ AuthAtMount
    /\ UNCHANGED <<isAuthenticated, userRole>>

\* onChange of the email field
SetEmail(value) ==
    /\ route = AuthRoute
    /\ email' = value
    /\ UNCHANGED <<isAuthenticated, userRole, route, isLogin, password, selectedRole, nav>>
    /\ UNCHANGED <<viewVars, i18nVars>>

\* onChange of the password field
SetPassword(value) ==
    /\ route = AuthRoute
    /\ password' = value
    /\ UNCHANGED <<isAuthenticated, userRole, route, isLogin, email, selectedRole, nav>>
    /\ UNCHANGED <<viewVars, i18nVars>>

\* the link under the form: setIsLogin(!isLogin)
ToggleLogin ==
    /\ route = AuthRoute
    /\ isLogin' = ~isLogin
    /\ UNCHANGED <<isAuthenticated, userRole, route, email, password, selectedRole, nav>>
    /\ UNCHANGED <<viewVars, i18nVars>>

\* a role button, rendered in signup mode only
SelectRole(role) ==
    /\ route = AuthRoute
    /\ ~isLogin
    /\ selectedRole' = role
    /\ UNCHANGED <<isAuthenticated, userRole, route, isLogin, email, password, nav>>
    /\ UNCHANGED <<viewVars, i18nVars>>

\* the form is submitted, which the browser does only with both required
\* fields filled; handleSubmit: the two setItem calls, then
\* navigate('/dashboard'), where the layout mounts and its effect reads the
\* item just written
Submit ==
    /\ route = AuthRoute
    /\ email # EmptyStr
    /\ password # EmptyStr
    /\ userRole' = Some(selectedRole)
    /\ isAuthenticated' = Some(Str("true"))
    /\ route' = Guard(Str("/dashboard"), isAuthenticated')
    /\ nav' = Some([cause |-> "submit", to |-> Str("/dashboard")])
    /\ AuthAtMount
    /\ UNCHANGED <<viewVars, i18nVars>>

\* the logout button with a handleLogout of DashboardLayout that lacks its
\* second removeItem
LogoutKeepsRole ==
    /\ route \in DashboardRoutes
    /\ isAuthenticated' = Null
    /\ UNCHANGED userRole
    /\ route' = AuthRoute
    /\ nav' = Some([cause |-> "logout", to |-> AuthRoute])
    /\ AuthAtMount
    /\ UNCHANGED <<viewVars, i18nVars>>

\* the logout button of the Navbar, rendered by DashboardLayout only
\* (showAuth): onLogout() removes both items, then navigate('/auth')
Logout ==
    /\ route \in DashboardRoutes
    /\ isAuthenticated' = Null
    /\ userRole' = Null
    /\ route' = AuthRoute
    /\ nav' = Some([cause |-> "logout", to |-> AuthRoute])
    /\ AuthAtMount
    /\ UNCHANGED <<viewVars, i18nVars>>

\* a link of the Sidebar: the layout stays mounted, its effect does not run again
SidebarLink(path) ==
    /\ route \in DashboardRoutes
    /\ route' = path
    /\ nav' = Some([cause |-> "link", to |-> path])
    /\ UNCHANGED <<isAuthenticated, userRole, isLogin, email, password, selectedRole>>
    /\ UNCHANGED <<viewVars, i18nVars>>

\* the logo of the Navbar: <Link to="/">
HomeLink ==
    /\ route = AuthRoute \/ route \in DashboardRoutes
    /\ route' = Str("/")
    /\ nav' = Some([cause |-> "link", to |-> Str("/")])
    /\ AuthAtMount
    /\ UNCHANGED <<isAuthenticated, userRole>>
    /\ UNCHANGED <<viewVars, i18nVars>>

\* the plant-health view is shown to a signed-in user, inside the layout
SignedIn ==
    /\ isAuthenticated = Some(Str("true"))
    /\ userRole = Some(Farmer)
    /\ route = Str("/plant-health")
    /\ isLogin = TRUE
    /\ email = EmptyStr
    /\ password = EmptyStr
    /\ selectedRole = Farmer
    /\ nav = Null

InitView ==
    /\ image = Null
    /\ imageFile = Null
    /\ analysis = Null
    /\ loading = FALSE
    /\ error = Null
    /\ readers = <<>>
    /\ inflight = <<>>
    /\ last = Null
    /\ health = Null

\* a first visit: nothing persisted, the page loaded in English
FirstVisit ==
    /\ stored = Null
    /\ language = Some(InitialLanguage(GetSavedLanguage("ok", Null)))
    /\ resources = CompleteBundle
    /\ lastChoice = Null
    /\ boot = Some([access |-> "ok", item |-> Null])
    /\ fmt = Null

Init == InitView /\ FirstVisit /\ SignedIn

Next ==
    \/ \E file \in Files : FilePick(file)
    \/ \E file \in Files : Drop(file)
    \/ \E i \in 1..Len(readers) : \E result \in ReadResults(readers[i]) : ReadEnd(i, result)
    \/ Clear
    \/ AnalyzeAnother
    \/ ClickAnalyze
    \/ \E file \in Files : DirectCall(file)
    \/ \E i \in 1..Len(inflight), resp \in Responses : Settle(i, resp)

Spec == Init /\ [][Next]_vars

\* the client alone, driven by direct callers
NextClient ==
    \/ \E file \in Files : DirectCall(file)
    \/ \E i \in 1..Len(inflight), resp \in Responses : SettleObserved(i, resp)
    \/ \E resp \in ({ TransportFailure(m) : m \in TransportMessages }
                    \cup { HttpResponse(st, Unparsable) : st \in { 200, 204, 304, 404, 500 } }) : HealthCheck(resp)

SpecClient == Init /\ [][NextClient]_vars

\* the plant-health view alone, driven through what it renders
NextView ==
    \/ \E file \in Files : FilePick(file)
    \/ \E file \in Files : Drop(file)
    \/ \E i \in 1..Len(readers) : \E result \in ReadResults(readers[i]) : ReadEnd(i, result)
    \/ Clear
    \/ AnalyzeAnother
    \/ ClickAnalyze
    \/ \E i \in 1..Len(inflight), resp \in Responses : Settle(i, resp)

SpecView == Init /\ [][NextView]_vars

\* handleAnalyze invoked whatever the analyze button's rendering allows
AnalyzeInvoked ==
    /\ Mounted
    /\ Cardinality(CallsOf("view")) < MaxViewCalls
    /\ HandleAnalyze
    /\ last' = Null /\ health' = Null
    /\ UNCHANGED <<i18nVars, authVars>>
    /\ UNCHANGED readers

\* the view with its handlers also invoked directly
NextHandlers ==
    \/ NextView
    \/ AnalyzeInvoked

SpecHandlers == Init /\ [][NextHandlers]_vars

\* the page as loaded with whatever an earlier visit left in localStorage
InitLanguage ==
    /\ InitView
    /\ SignedIn
    /\ \E item \in { Null, Some(EmptyStr), Some(En), Some(Kn), Some(Hi), Some(Fr),
                      Some(Str("en-US")) },
          access \in Accesses :
          /\ stored = item
          /\ language = Some(InitialLanguage(GetSavedLanguage(access, item)))
          /\ boot = Some([access |-> access, item |-> item])
    /\ resources = CompleteBundle
    /\ lastChoice = Null
    /\ fmt = Null

\* language changes and page loads
NextLanguage ==
    \/ \E access \in Accesses : Startup(access)
    \/ \E lng \in ChangeTags, access \in Accesses : ChangeLanguage(lng, access)

SpecLanguage == InitLanguage /\ [][NextLanguage]_vars

InitFormat ==
    /\ InitView
    /\ SignedIn
    /\ language \in { Null, Some(EmptyStr) } \cup { Some(lng) : lng \in ChangeTags }
    /\ stored = Null
    /\ resources = CompleteBundle
    /\ lastChoice = Null
    /\ boot = Null
    /\ fmt = Null

\* the formatters called while the language changes (localStorage working)
NextFormat ==
    \/ \E lng \in ChangeTags : ChangeLanguage(lng, "ok")
    \/ \E num \in { Whole(n) : n \in { 0, 8, 15, -3, 85, 999, 1000, -1000, 12345,
                                        100000, 123456, -123456 } }
                    \cup { 65000, 62500, 8700, 8765, 10050, -400, 29995, 9999995, 999995000 } :
            FormatNumberCall(num)
    \/ \E num \in { 0, 8700, 8765, Whole(1), -400, Whole(15) }, decimals \in Decimals : FormatPercentageCall(num, decimals)
    \/ \E num \in { Whole(15), Whole(-3), 0, Whole(85), Whole(92), 5000, -400, Whole(123456) },
          showPlus \in BOOLEAN :
            FormatNumberWithPercentCall(num, showPlus)
    \/ \E num \in { Whole(6), 65000, 62500, 10050, -400, 29995, 9999995, Whole(-123456) },
          decimals \in Decimals :
            FormatDecimalCall(num, decimals)
    \/ \E date \in Dates : FormatDateCall(date)
    \/ \E date \in Dates : FormatDateShortCall(date)
    \/ \E monthIndex \in MonthIndexes : GetMonthAbbrCall(monthIndex)
    \/ \E monthIndex \in MonthIndexes : GetMonthNameCall(monthIndex)
    \/ \E confidence \in { 0, 7, 57, 87, 100, 150, -5 } : RenderConfidence(confidence)

SpecFormat == InitFormat /\ [][NextFormat]_vars

InitMonths ==
    /\ InitView
    /\ SignedIn
    /\ language \in { Some(lng) : lng \in ValidLanguages }
    /\ stored = Null
    /\ resources \in ({ CompleteBundle,
                        Locales(Entries({ Hi }, { "jan", "january" }), {}),
                        Locales(Entries(ValidLanguages, { "jan", "january" }), {}),
                        Locales({}, Entries({ Kn }, { "jan", "january" })) })
    /\ lastChoice = Null
    /\ boot = Null
    /\ fmt = Null

\* the month names looked up while the language changes (localStorage working)
NextMonths ==
    \/ \E lng \in ChangeTags : ChangeLanguage(lng, "ok")
    \/ \E monthIndex \in MonthIndexes : GetMonthAbbrCall(monthIndex)
    \/ \E monthIndex \in MonthIndexes : GetMonthNameCall(monthIndex)

SpecMonths == InitMonths /\ [][NextMonths]_vars

\* the severity line rendered for any severity
\* whole severities of the scale, some between two whole ones, and some
\* outside the scale (the view does not validate severity_level)
NextSeverity ==
    \E severity \in { JInt(n).h : n \in 0..MaxSeverity }
                        \cup { 50, 2050, 4001, 7999 }
                        \cup { JInt(150).h, 0 - JInt(5).h } :
        RenderSeverity(severity)

SpecSeverity == Init /\ [][NextSeverity]_vars

\* the site opened at its home page, signed out or signed in by an earlier visit
InitAuth ==
    /\ InitView
    /\ FirstVisit
    /\ \/ isAuthenticated = Null /\ userRole = Null
       \/ isAuthenticated = Some(Str("true")) /\ userRole \in { Some(role) : role \in UserRoles }
    /\ route = Str("/")
    /\ isLogin = TRUE
    /\ email = EmptyStr
    /\ password = EmptyStr
    /\ selectedRole = Farmer
    /\ nav = Null

\* signing in and out and moving between the routes
NextAuth ==
    \/ \E path \in { Str("/"), AuthRoute, Str("/nowhere") } \cup DashboardRoutes : Open(path)
    \/ \E value \in { EmptyStr, Str("grower@example.org") } : SetEmail(value)
    \/ \E value \in { EmptyStr, Str("secret") } : SetPassword(value)
    \/ ToggleLogin
    \/ \E role \in UserRoles : SelectRole(role)
    \/ Submit
    \/ Logout
    \/ \E path \in DashboardRoutes : SidebarLink(path)
    \/ HomeLink

SpecAuth == InitAuth /\ [][NextAuth]_vars

-----------------------------------------------------------------------------
(* Properties *)

ValidFile(file) == StartsWithImage(file.type) /\ ~TooLarge(file.size)

ViewCallInFlight == \E i \in 1..Len(inflight) : inflight[i].origin = "view"

\* C1 as stated: no request to /analyze is ever issued for a file that is not
\* an image or is larger than 5 MiB, whatever path brought the file to the call
\* (file picker, drag-and-drop, direct call of analyzePlantImage).
C1_NoInvalidFileOnAnyPath ==
    \A i \in 1..Len(inflight) :
        \A k \in 1..Len(inflight[i].reqs) : ValidFile(inflight[i].reqs[k].file)

\* C1 amended: a file that is not an image or is larger than 5 MiB never
\* becomes the view's selected file, is never being read for it, and no request
\* of the view carries it.
C1_ViewNeverUploadsInvalidFile ==
    /\ imageFile # Null => ValidFile(imageFile[1])
    /\ \A i \in 1..Len(readers) : ValidFile(readers[i])
    /\ \A i \in 1..Len(inflight) :
          inflight[i].origin = "view" =>
              \A k \in 1..Len(inflight[i].reqs) : ValidFile(inflight[i].reqs[k].file)

\* an oversize image was rejected by the view while a request of the view is in flight
C1_Witness == error = Some(MsgTooLarge) /\ ViewCallInFlight

\* C2 as stated: no invocation of analyzePlantImage ends by propagating an
\* exception to its caller.
C2_NeverThrows == last # Null => last[1].outcome.kind # "thrown"

\* C2 amended: an invocation returns a value exactly when the response has a
\* success status and a body that parses as JSON; in every other case
\* (transport failure, non-success status, unparsable success body) it ends by
\* throwing an Error with a non-empty message to its caller.
C2_FailuresAreRethrown ==
    last # Null =>
        LET resp == last[1].resp
            outcome == last[1].outcome
            success == resp.kind = "http" /\ resp.status >= 200 /\ resp.status <= 299
                       /\ resp.body.t # "unparsable"
        IN  /\ success => outcome.kind = "returned" /\ outcome.value = Some(resp.body)
            /\ ~success => /\ outcome.kind = "thrown"
                           /\ outcome.err[1].name \in {"Error", "TypeError", "SyntaxError"}
                           /\ outcome.err[1].message # EmptyStr

\* a call answered 500 has ended by throwing
C2_Witness ==
    /\ last # Null
    /\ last[1].resp.kind = "http" /\ last[1].resp.status = 500
    /\ last[1].outcome.kind = "thrown"

NonEmptyField(o, k) == k \in DOMAIN o /\ o[k].t = "str" /\ o[k].s # EmptyStr

C4_UnparsableErrorBody ==
    (/\ last # Null
     /\ last[1].resp.kind = "http"
     /\ ~(last[1].resp.status \in 200..299)
     /\ last[1].resp.body.t = "unparsable") =>
        /\ last[1].outcome.kind = "thrown"
        /\ Contains(last[1].outcome.err[1].message, Digits(last[1].resp.status))
        /\ last[1].outcome.err[1].name # "SyntaxError"

\* a 500 with an unparsable body has settled
C4_Witness ==
    /\ last # Null
    /\ last[1].resp.kind = "http" /\ last[1].resp.status = 500
    /\ last[1].resp.body.t = "unparsable"
    /\ last[1].outcome.kind = "thrown"

IsNum(o, k) == k \in DOMAIN o /\ o[k].t = "num"

IsStr(o, k) == k \in DOMAIN o /\ o[k].t = "str"

IsArr(o, k) == k \in DOMAIN o /\ o[k].t = "arr"

\* every required field of AnalysisResult is there, with its declared type
WellShaped(body) ==
    /\ body.t = "object"
    /\ IsStr(body.o, "crop_type")
    /\ IsStr(body.o, "disease_status")
    /\ IsNum(body.o, "severity_level")
    /\ IsNum(body.o, "confidence")
    /\ IsArr(body.o, "recommendations")

\* C5: on a success status whose body lacks a required field or has one of the
\* wrong shape, the call ends in a failure; it never returns that body as an
\* AnalysisResult.
C5_MalformedSuccessFails ==
    (/\ last # Null
     /\ last[1].resp.kind = "http"
     /\ last[1].resp.status \in 200..299
     /\ ~WellShaped(last[1].resp.body)) =>
        last[1].outcome.kind = "thrown"

\* C6: once the user has cleared the image while a call of the view was in
\* flight, no outcome of that call is delivered to the view: when the call
\* settles, neither the analysis nor the error state changes.
C6_ClearedCallNeverDelivered ==
    [][(\E i \in 1..Len(inflight) :
            /\ inflight[i].origin = "view"
            /\ inflight[i].cleared
            /\ inflight' = RemoveAt(inflight, i))
        => (analysis' = analysis /\ error' = error)]_vars

C8_TransportMessageIsGeneric ==
    [][\A i \in 1..Len(inflight) : \A resp \in TransportResponses :
          (/\ resp.kind = "transport"
           /\ inflight[i].origin = "view"
           /\ Mounted
           /\ SettleCall(i, resp))
          => (error' # Null /\ error' # Some(resp.raw))]_vars

\* C8 amended: a transport failure is caught, logged and rethrown unchanged, and
\* the view shows the raw message of the transport exception.
C8_TransportMessageIsRaw ==
    [][\A i \in 1..Len(inflight) : \A resp \in TransportResponses :
          (/\ resp.kind = "transport"
           /\ inflight[i].origin = "view"
           /\ Mounted
           /\ SettleCall(i, resp))
          => (error' = Some(resp.raw) /\ analysis' = analysis /\ loading' = FALSE)]_vars

\* the view shows fetch's own message
C8_Witness == error = Some(Str("Failed to fetch")) /\ ~loading /\ image # Null

\* C9: checkApiHealth answers true exactly when the request got a response
\* whose status is in 200..299, and false for every other status and for every
\* transport failure.
C9_HealthIsBoolean ==
    health # Null =>
        /\ health[1].result \in BOOLEAN
        /\ health[1].result <=>
              (/\ health[1].resp.kind = "http"
               /\ health[1].resp.status >= 200
               /\ health[1].resp.status <= 299)

\* a redirect-class status was reported unhealthy
C9_Witness ==
    /\ health # Null
    /\ health[1].resp.kind = "http" /\ health[1].resp.status = 304
    /\ health[1].result = FALSE

\* C10: whenever the view holds an analysis, its severity_level is a number in
\* 0..100, its confidence a number in 0.0..1.0, and its recommendations an array.
C10_AnalysisWithinBounds ==
    analysis # Null =>
        LET a == analysis[1]
        IN  /\ IsNum(a, "severity_level")
            /\ a["severity_level"].h >= 0 /\ a["severity_level"].h <= 100 * 100
            /\ IsNum(a, "confidence")
            /\ a["confidence"].h >= 0 /\ a["confidence"].h <= 100
            /\ IsArr(a, "recommendations")

\* the page load of the latest step found a supported tag under the persisted key
SupportedSaved ==
    /\ boot # Null
    /\ boot[1].access = "ok"
    /\ boot[1].item # Null
    /\ boot[1].item[1] \in ValidLanguages

\* C11: right after a page load the active language is one of en, kn, hi: it
\* is the persisted value when that value was read and is one of the three, and
\* en when the key is absent, empty, unreadable or holds any other string.
C11_StartupLanguage ==
    boot # Null =>
        /\ language # Null
        /\ language[1] \in ValidLanguages
        /\ language[1] = IF SupportedSaved THEN boot[1].item[1] ELSE En

\* a page load that read the unsupported tag a language change had persisted
C11_Witness ==
    /\ boot # Null
    /\ boot[1].access = "ok"
    /\ boot[1].item = Some(Fr)
    /\ lastChoice # Null
    /\ language = Some(En)

\* the latest language change chose a supported tag and its write succeeded
ChoicePersisted ==
    /\ lastChoice # Null
    /\ lastChoice[1].written
    /\ lastChoice[1].lng \in ValidLanguages

\* C12 as stated: a language change whose write succeeded leaves its tag under
\* the persisted key, and right after any later page load the active language
\* is the latest chosen tag, when that tag is supported and its write succeeded.
C12_RestartRestoresChoice ==
    /\ (lastChoice # Null /\ lastChoice[1].written) => stored = Some(lastChoice[1].lng)
    /\ (boot # Null /\ ChoicePersisted) => language = Some(lastChoice[1].lng)

\* C12 amended: a language change whose write succeeded leaves its tag under
\* the persisted key, and right after a later page load that could read the key
\* the active language is the latest chosen tag, when that tag is supported and
\* its write succeeded; a page load that cannot read the key starts in en.
C12_ReadableRestartRestoresChoice ==
    /\ (lastChoice # Null /\ lastChoice[1].written) => stored = Some(lastChoice[1].lng)
    /\ (boot # Null /\ ChoicePersisted) =>
          language = Some(IF boot[1].access = "ok" THEN lastChoice[1].lng ELSE En)

\* a page load that restored hi, chosen and persisted before it
C12_Witness ==
    /\ boot # Null
    /\ boot[1].access = "ok"
    /\ lastChoice = Some([lng |-> Hi, written |-> TRUE])
    /\ language = Some(Hi)

SameCall(a, b) == a.op = b.op /\ a.args = b.args

\* C14 as stated: a formatter called twice with equal arguments returns equal
\* strings, whatever language changes happened between the two calls.
C14_ArgumentsDetermineResult ==
    [][(fmt # Null /\ fmt' # Null /\ SameCall(fmt[1], fmt'[1]))
         => fmt'[1].result = fmt[1].result]_vars

\* C14 amended: a formatter called twice with equal arguments while
\* i18n.language has the same value returns equal strings, whatever else
\* changed in between; the language is read from the i18n instance.
C14_ArgumentsAndLanguageDetermineResult ==
    [][(/\ fmt # Null /\ fmt' # Null
        /\ SameCall(fmt[1], fmt'[1])
        /\ fmt'[1].lang = fmt[1].lang)
         => fmt'[1].result = fmt[1].result]_vars

\* 123456 formatted after the language was changed to hi
C14_Witness ==
    /\ fmt # Null
    /\ lastChoice # Null
    /\ fmt[1].lang = Some(Hi)
    /\ fmt[1].op = "formatNumber"
    /\ fmt[1].args = <<Whole(123456)>>
    /\ fmt[1].result = <<"1", ",", "2", "3", ",", "4", "5", "6">>

\* C15: formatNumberWithPercent(v, showSign) is the locale rendering of v
\* followed by '%', with '+' in front exactly when showSign holds and v > 0:
\* (15, true) gives "+15%", (-3, true) "-3%", (0, false) and (0, true) "0%".
C15_PercentSign ==
    (fmt # Null /\ fmt[1].op = "formatNumberWithPercent") =>
        LET num == fmt[1].args[1]
            showSign == fmt[1].args[2]
            rendering == ToLocaleString(num, fmt[1].locale, Null)
        IN  /\ fmt[1].result =
                  (IF showSign /\ num > 0 THEN <<"+">> ELSE <<>>) \o rendering \o <<"%">>
            /\ (num = Whole(15) /\ showSign) => fmt[1].result = <<"+", "1", "5", "%">>
            /\ (num = Whole(-3) /\ showSign) => fmt[1].result = <<"-", "3", "%">>
            /\ num = 0 => fmt[1].result = <<"0", "%">>

\* formatNumberWithPercent(0, true) under kn
C15_Witness ==
    /\ fmt # Null
    /\ fmt[1].op = "formatNumberWithPercent"
    /\ fmt[1].args = <<0, TRUE>>
    /\ fmt[1].lang = Some(Kn)
    /\ fmt[1].result = <<"0", "%">>

IsDigit(c) == \E d \in 1..10 : DigitChars[d] = c

DigitValue(c) == (CHOOSE d \in 1..10 : DigitChars[d] = c) - 1

RECURSIVE DigitsValue(_)
DigitsValue(ds) ==
    IF ds = <<>> THEN 0
    ELSE 10 * DigitsValue(SubSeq(ds, 1, Len(ds) - 1)) + DigitValue(ds[Len(ds)])

\* where a locale puts its grouping separators, counted from the right
SeparatorAt(locale, k) ==
    IF locale = EnUS THEN k % 4 = 0 ELSE k >= 4 /\ (k - 4) % 3 = 0

WellGrouped(text, locale) ==
    /\ text # <<>>
    /\ text[1] # ","
    /\ \A k \in 1..Len(text) :
          LET c == text[Len(text) - k + 1]
          IN  IF SeparatorAt(locale, k) THEN c = "," ELSE IsDigit(c)

Unsigned(text) ==
    IF text # <<>> /\ text[1] \in { "-", "+" } THEN Tail(text) ELSE text

Bare(text) ==
    IF text # <<>> /\ text[Len(text)] = "%" THEN SubSeq(text, 1, Len(text) - 1) ELSE text

DotAt(text) ==
    IF \E i \in 1..Len(text) : text[i] = "."
    THEN CHOOSE i \in 1..Len(text) : text[i] = "."
    ELSE 0

\* the digits after the decimal point of a rendering
FractionOf(text) ==
    LET body == Bare(Unsigned(text))
    IN  IF DotAt(body) = 0 THEN <<>> ELSE SubSeq(body, DotAt(body) + 1, Len(body))

\* the number a rendering denotes when read back under the locale's grouping
\* (as n * Scale), or Null when the locale cannot read it
Denoted(text, locale) ==
    LET body == Bare(Unsigned(text))
        whole == IF DotAt(body) = 0 THEN body ELSE SubSeq(body, 1, DotAt(body) - 1)
        fraction == FractionOf(text)
        readable == /\ WellGrouped(whole, locale)
                    /\ DotAt(body) # 0 => fraction # <<>>
                    /\ Len(fraction) <= 4
                    /\ \A i \in 1..Len(fraction) : IsDigit(fraction[i])
        magnitude == DigitsValue(SelectSeq(whole, IsDigit)) * Scale
                     + DigitsValue(fraction) * Pow10(4 - Len(fraction))
    IN  IF ~readable THEN Null
        ELSE Some(IF text[1] = "-" THEN -magnitude ELSE magnitude)

\* num rounded half away from zero to the given number of fraction digits
Nearest(num, digits) ==
    LET unit == Pow10(4 - digits)
        magnitude == ((Abs(num) + (unit \div 2)) \div unit) * unit
    IN  IF num < 0 THEN -magnitude ELSE magnitude

\* C16: formatNumberWithPercent never rescales (the number it renders is its
\* input), formatPercentage renders 100 times its input, and the confidence
\* line of the plant-health page shows a confidence in 0..1 scaled by 100
\* exactly once: a percentage in 0..100.
C16_ScaledOnce ==
    fmt # Null =>
        /\ fmt[1].op = "formatNumberWithPercent" =>
              Denoted(fmt[1].result, fmt[1].locale) = Some(Nearest(fmt[1].args[1], 3))
        /\ fmt[1].op = "formatPercentage" =>
              Denoted(fmt[1].result, fmt[1].locale)
                = Some(Nearest(fmt[1].args[1] * 100, fmt[1].args[2]))
        /\ (fmt[1].op = "confidence" /\ fmt[1].args[1] \in 0..100) =>
              /\ Denoted(fmt[1].result, fmt[1].locale) = Some(Whole(fmt[1].args[1]))
              /\ fmt[1].result = Digits(fmt[1].args[1]) \o <<"%">>

\* the confidence 0.87 shown as 87% under hi
C16_Witness ==
    /\ fmt # Null
    /\ fmt[1].op = "confidence"
    /\ fmt[1].args = <<87>>
    /\ fmt[1].lang = Some(Hi)
    /\ fmt[1].result = <<"8", "7", "%">>

MonthKeyOf(call) ==
    IF call.op = "getMonthAbbr" THEN MonthAbbrKeys[call.args[1] + 1]
    ELSE MonthNameKeys[call.args[1] + 1]

\* C17: getMonthAbbr and getMonthName, for an index in 0..11 whose
\* translation is missing in the active language, return the internal key
\* ('jan', 'january'): not a translation-path string, not another language's
\* word, not an empty string.
C17_MissingMonthFallsBackToKey ==
    (/\ fmt # Null
     /\ fmt[1].op \in { "getMonthAbbr", "getMonthName" }
     /\ fmt[1].lang # Null
     /\ Resource(fmt[1].lang[1], MonthKeyOf(fmt[1])) = Null)
      => fmt[1].result = Str(MonthKeyOf(fmt[1]))

\* C18: formatDecimal(v, d) renders exactly d fractional digits under every
\* supported language, padding with zeros or rounding to the nearest value:
\* formatDecimal(6.5, 1) is "6.5" and formatDecimal(6, 2) is "6.00" under en.
C18_ExactFractionDigits ==
    (fmt # Null /\ fmt[1].op = "formatDecimal") =>
        LET num == fmt[1].args[1]
            decimals == fmt[1].args[2]
        IN  /\ Len(FractionOf(fmt[1].result)) = decimals
            /\ Denoted(fmt[1].result, fmt[1].locale) = Some(Nearest(num, decimals))
            /\ (fmt[1].lang = Some(En) /\ num = 65000 /\ decimals = 1)
                  => fmt[1].result = <<"6", ".", "5">>
            /\ (fmt[1].lang = Some(En) /\ num = Whole(6) /\ decimals = 2)
                  => fmt[1].result = <<"6", ".", "0", "0">>

\* formatDecimal(6, 2) under kn, padded to two digits
C18_Witness ==
    /\ fmt # Null
    /\ fmt[1].op = "formatDecimal"
    /\ fmt[1].args = <<Whole(6), 2>>
    /\ fmt[1].lang = Some(Kn)
    /\ fmt[1].result = <<"6", ".", "0", "0">>

\* C19: for every integer n and supported language, reading formatNumber(n)
\* back under the same locale's grouping gives n.
C19_IntegerRoundTrip ==
    (/\ fmt # Null
     /\ fmt[1].op = "formatNumber"
     /\ fmt[1].args[1] % Scale = 0
     /\ fmt[1].lang # Null
     /\ fmt[1].lang[1] \in ValidLanguages)
      => Denoted(fmt[1].result, fmt[1].locale) = Some(fmt[1].args[1])

\* -123456 formatted under kn with its two separators
C19_Witness ==
    /\ fmt # Null
    /\ fmt[1].op = "formatNumber"
    /\ fmt[1].args = <<Whole(-123456)>>
    /\ fmt[1].lang = Some(Kn)
    /\ fmt[1].result = <<"-", "1", ",", "2", "3", ",", "4", "5", "6">>

\* C20: when a call of the view settles, a failure leaves analysis unchanged
\* and makes error the message of the thrown Error (the generic text only for
\* a rejection that is no Error), and a success makes analysis the returned
\* result and leaves error null.
C20_OutcomeDecidesState ==
    [][\A i \in 1..Len(inflight) : \A resp \in Responses :
          (/\ inflight[i].origin = "view"
           /\ Mounted
           /\ SettleCall(i, resp))
          => IF AnalyzePlantImage(resp).kind = "returned"
             THEN /\ analysis' = Some(Spread(AnalyzePlantImage(resp).value[1]))
                  /\ error' = Null
             ELSE /\ error' = Some(ViewErrorMessage(AnalyzePlantImage(resp).err[1]))
                  /\ analysis' = analysis]_vars

\* C21: when handleImageSelect receives an image file, it rejects the file for
\* its size (error 'File size must be less than 5MB', no read started) if and
\* only if the size exceeds 5 * 1024 * 1024 bytes; a file of exactly that size
\* is accepted and its read is started.
C21_SizeBoundary ==
    [][\A file \in Files :
          (StartsWithImage(file.type) /\ FilePick(file))
          => /\ (error' = Some(MsgTooLarge) /\ readers' = readers)
                  <=> file.size > MaxFileSize
             /\ (readers' = Append(readers, file) /\ error' = error)
                  <=> file.size <= MaxFileSize]_vars

\* the image of exactly 5 MiB became the selected file
C21_Witness ==
    /\ imageFile = Some(File(TypePng, MaxFileSize))
    /\ image = Some(DataURL(File(TypePng, MaxFileSize)))

\* the error handleImageSelect sets for a file it rejects
RejectionOf(file) == IF ~StartsWithImage(file.type) THEN MsgInvalidType ELSE MsgTooLarge

\* handleImageSelect is reached by the file input for every file and by a drop
\* for an image file
Selected(file) == FilePick(file) \/ (StartsWithImage(file.type) /\ Drop(file))

Acceptable(file) == StartsWithImage(file.type) /\ file.size <= MaxFileSize

\* C22: when handleImageSelect rejects a file (not an image, or too large) it
\* sets the error in that step and leaves image, imageFile, analysis and
\* loading unchanged; no read is started, so no file being read and no
\* selected file is ever a rejected one.
C22_RejectionFrame ==
    [][/\ \A file \in Files :
            (~Acceptable(file) /\ Selected(file))
            => /\ error' = Some(RejectionOf(file))
               /\ UNCHANGED <<image, imageFile, analysis, loading, readers, inflight>>
       /\ \A i \in 1..Len(readers') : Acceptable(readers'[i])
       /\ imageFile' # Null => Acceptable(imageFile'[1])]_vars

\* a PDF was rejected while an accepted image is still being read
C22_Witness ==
    /\ error = Some(MsgInvalidType)
    /\ image = Null
    /\ imageFile = Null
    /\ Len(readers) = 1
    /\ Acceptable(readers[1])

\* C23: whenever an analysis is displayed an image is selected (preview and
\* file): a response that arrives after the image was cleared is not installed.
C23_AnalysisHasItsImage ==
    analysis # Null => (image # Null /\ imageFile # Null)

ViewCalls(calls) == { i \in 1..Len(calls) : calls[i].origin = "view" }

\* C24: at most one request of the view is in flight; handleAnalyze starts one
\* only while loading is false, and loading is true for as long as the request
\* is in flight, whatever clears and selections happen meanwhile.
C24_OneRequestInFlight ==
    /\ Cardinality(ViewCalls(inflight)) <= 1
    /\ ViewCallInFlight => loading

\* a request in flight while the image was cleared and another file is being read
C24_Witness ==
    /\ ViewCallInFlight
    /\ loading
    /\ image = Null
    /\ readers # <<>>

\* C25: when a request of the view settles, on the success path or on a
\* failure path, loading becomes false in that step; loading is never true
\* without a request of the view in flight.
C25_LoadingEndsWithRequest ==
    /\ [](loading => ViewCallInFlight)
    /\ [][Cardinality(ViewCalls(inflight')) < Cardinality(ViewCalls(inflight))
            => loading' = FALSE]_vars

\* a failed request left its message and loading false
C25_Witness ==
    /\ ~loading
    /\ inflight = <<>>
    /\ error # Null
    /\ error[1] \notin { MsgInvalidType, MsgTooLarge, MsgNoImage }

\* C26: the preview and the file to upload are set together and cleared
\* together, and come from the same file.
C26_ImageAndFileTogether ==
    /\ (image # Null) <=> (imageFile # Null)
    /\ (image # Null /\ imageFile # Null) => image[1].data = imageFile[1]

\* C27: handleAnalyze invoked with no image file sets the error 'No image
\* selected', starts no request, and leaves loading, image and analysis
\* unchanged.
C27_NoFileNoRequest ==
    [][(imageFile = Null /\ AnalyzeInvoked)
         => /\ error' = Some(MsgNoImage)
            /\ UNCHANGED <<inflight, loading, image, imageFile, analysis>>]_vars

\* handleAnalyze was invoked with nothing selected
C27_Witness ==
    /\ error = Some(MsgNoImage)
    /\ imageFile = Null
    /\ inflight = <<>>

\* C28: the clear action and 'Analyze Another Image' each set image,
\* imageFile, analysis and error to null in one step and leave loading
\* unchanged.
C28_ResetFrame ==
    [][(Clear \/ AnalyzeAnother)
         => /\ image' = Null /\ imageFile' = Null /\ analysis' = Null /\ error' = Null
            /\ loading' = loading]_vars

\* the image was cleared while its request is still in flight
C28_Witness ==
    /\ image = Null
    /\ imageFile = Null
    /\ analysis = Null
    /\ error = Null
    /\ loading
    /\ \E i \in 1..Len(inflight) : inflight[i].cleared

\* the label the scale assigns to a whole severity n
BandOf(n) ==
    IF n = 0 THEN Str("Healthy")
    ELSE IF n \in 1..20 THEN Str("Mild")
    ELSE IF n \in 21..40 THEN Str("Moderate")
    ELSE IF n \in 41..60 THEN Str("Severe")
    ELSE IF n \in 61..80 THEN Str("Very Severe")
    ELSE Str("Critical")

\* C29: for every whole severity in 0..100 getSeverityLabel returns Healthy
\* for 0, Mild for 1..20, Moderate for 21..40, Severe for 41..60, Very Severe
\* for 61..80 and Critical above 80; for every severity getSeverityColor is
\* green exactly when the label is Healthy, yellow exactly when Mild, orange
\* exactly when Moderate, red exactly when Severe, Very Severe or Critical.
C29_SeverityBands ==
    (fmt # Null /\ fmt[1].op = "severity")
    => LET severity == fmt[1].args[1]
           color == fmt[1].result.color
           label == fmt[1].result.label
       IN  /\ (severity % 100 = 0 /\ (severity \div 100) \in 0..100)
                => label = BandOf(severity \div 100)
           /\ color = Str("text-green-600") <=> label = Str("Healthy")
           /\ color = Str("text-yellow-600") <=> label = Str("Mild")
           /\ color = Str("text-orange-600") <=> label = Str("Moderate")
           /\ color = Str("text-red-600")
                <=> label \in { Str("Severe"), Str("Very Severe"), Str("Critical") }

\* severity 41, the first red one, was rendered as Severe
C29_Witness ==
    /\ fmt # Null
    /\ fmt[1].op = "severity"
    /\ fmt[1].args = <<JInt(41).h>>
    /\ fmt[1].result = [color |-> Str("text-red-600"), label |-> Str("Severe")]

\* C30: the persisted userRole is present exactly when the persisted
\* isAuthenticated is; a submit sets both, a logout removes both and ends on
\* /auth, and a dashboard route entered while isAuthenticated is absent
\* shows /auth.
C30_SessionKeysPaired ==
    /\ [](userRole # Null <=> isAuthenticated # Null)
    /\ [][/\ Submit => (userRole' = Some(selectedRole) /\ isAuthenticated' # Null)
          /\ Logout => (userRole' = Null /\ isAuthenticated' = Null /\ route' = AuthRoute)
          /\ \A path \in DashboardRoutes :
                (isAuthenticated = Null /\ (Open(path) \/ SidebarLink(path)))
                => route' = AuthRoute]_vars

\* signed up as a lab expert, then signed out from the layout
C30_Witness ==
    /\ nav = Some([cause |-> "logout", to |-> AuthRoute])
    /\ route = AuthRoute
    /\ userRole = Null
    /\ isAuthenticated = Null

====
